---- MODULE Spec2Model ----
(***************************************************************************)
(* Mood Journal (src/app.py): a Flask service with two routes.             *)
(* POST /add_entry validates the text, asks the remote classifier for      *)
(* emotion scores, picks the primary emotion and inserts one row into the  *)
(* MySQL table journal_entries; GET /moods lists the 30 latest rows.       *)
(* setup_database provisions the schema before the app serves requests.    *)
(*                                                                         *)
(* Numbers: a classifier score and a percentage are fixed-point integers   *)
(* counting 1/100000 (Unit == 100000 is 1.0), so 0.12345 is 12345 and      *)
(* 92.0 is 9200000.  A float product carries, beside its fixed-point value, *)
(* the sign of what its decimal rendering (repr) adds to that value.       *)
(* A DATETIME is a count of whole seconds.                                 *)
(***************************************************************************)
EXTENDS Integers, Sequences, FiniteSets, TLC

VARIABLES
    setupPc,    \* position of setup_database / the main block
    dbExists,   \* CREATE DATABASE IF NOT EXISTS has run
    tableExists,\* CREATE TABLE IF NOT EXISTS has run on the server
    clock,      \* the database server's CURRENT_TIMESTAMP, in seconds
    entries,    \* committed rows of journal_entries
    nextId,     \* the table's AUTO_INCREMENT counter
    insertLog,  \* ids handed out by INSERT statements, in execution order
    txn,        \* txn[r]: rows inserted on r's connection and not yet committed
    connOpen,   \* connOpen[o]: connections o has opened and not yet closed
    pc,         \* pc[r]: position of request r in its handler
    req,        \* req[r]: the handler's local variables
    resp,       \* resp[r]: the HTTP response of request r
    calls       \* calls[r]: what request r has done so far (history)

vars == <<setupPc, dbExists, tableExists, clock, entries, nextId, insertLog,
          txn, connOpen, pc, req, resp, calls>>

----------------------------------------------------------------------------
(* Bounds of the model *)

\* concurrent request slots (worker threads of the server)
NumReq == 2
\* the AUTO_INCREMENT counter stops the model after this many INSERTs
MaxId == 2
\* the server clock stops ticking at this second
MaxClock == 1
\* INSERTs of the bulk specification, which fills the table past LIMIT
BulkIds == 31

(* Program constants *)

\* one unit of the fixed-point representation: 1.0
Unit == 100000
\* primary_score = score * 100 (app.py:137)
Percent == 100
\* DECIMAL(5, 2): two fractional digits (app.py:66)
DecimalScale == 2
\* LIMIT 30 (app.py:177)
Limit == 30

Reqs == 1 .. NumReq
\* the process that runs setup_database
Main == 0
Owners == Reqs \cup {Main}

----------------------------------------------------------------------------
(* Inputs *)

\* request.json.get('text'): absent (None), empty, or a text
None == "None"
Texts == {"t1"}
TextInputs == {None, ""} \cup Texts

\* request.json of a JSON request: an object, with or without a text, or
\* another JSON value (null, a list, a string, a number)
Body(kind, text) == [kind |-> kind, text |-> text]
Bodies == {Body("object", t) : t \in TextInputs} \cup {Body("other", None)}

Labels == {"joy", "sadness"}
\* 0.07, 0.12345, 0.58215 and 0.92
Scores == {7000, 12345, 58215, 92000}

\* one element of the inner list of the classifier's answer; keys are the
\* fields the JSON object has
Item(keys, label, score) == [keys |-> keys, label |-> label, score |-> score]
GoodItems == {Item({"label", "score"}, l, s) : l \in Labels, s \in Scores}
BadItems == {Item({"label"}, "joy", 0), Item({"score"}, "", 92000)}
\* an object with a field more
ExtraItems == {Item({"label", "score", "extra"}, "joy", 92000)}
Items == GoodItems \cup BadItems \cup ExtraItems
ItemLists == {<<>>} \cup {<<i>> : i \in Items}
               \cup {<<i, j>> : i \in GoodItems, j \in Items}

\* what requests.post(...) and response.json() can give:
\*   transport: the call raises (network error)
\*   status:    raise_for_status raises (non-2xx)
\*   badjson:   the body is not JSON
\*   json:      a JSON value; shape says which:
\*     dict       an object, e.g. {"error": ...}
\*     emptylist  []
\*     flatlist   a list whose first element is not a list
\*     listlist   [items, ...]
Api(kind, shape, items) == [kind |-> kind, shape |-> shape, items |-> items]
NoApi == Api("none", "none", <<>>)
ApiResponses ==
    {Api(k, "none", <<>>) : k \in {"transport", "status", "badjson"}}
    \cup {Api("json", s, <<>>) : s \in {"dict", "emptylist", "flatlist"}}
    \cup {Api("json", "listlist", items) : items \in ItemLists}

Outcomes == {"ok", "error", "lost"}
TieOrders == {"asc", "desc"}

----------------------------------------------------------------------------
(* analyze_emotion and the arithmetic of add_entry *)

\* dict[k] = v on an insertion-ordered dict, kept as a sequence of pairs:
\* a key already present keeps its place and takes the new value
DictPut(d, k, v) ==
    IF \E i \in 1 .. Len(d) : d[i].label = k
    THEN [i \in 1 .. Len(d) |->
            IF d[i].label = k THEN [label |-> k, score |-> v] ELSE d[i]]
    ELSE Append(d, [label |-> k, score |-> v])

\* {item['label']: item['score'] for item in items}
RECURSIVE DictOf(_)
DictOf(items) ==
    IF items = <<>> THEN <<>>
    ELSE LET n == Len(items)
         IN DictPut(DictOf(SubSeq(items, 1, n - 1)),
                    items[n].label, items[n].score)

\* item['label'] or item['score'] raises KeyError
RaisesKeyError(items) ==
    \E i \in 1 .. Len(items) :
        "label" \notin items[i].keys \/ "score" \notin items[i].keys

Result(kind, data) == [kind |-> kind, data |-> data]

\* variant: the comprehension reads a missing field as present
analyze_emotion_nocheck(api) ==
    IF api.kind \in {"transport", "status", "badjson"} THEN Result("none", <<>>)
    ELSE IF api.shape # "listlist" THEN Result("none", <<>>)
    ELSE Result("dict", DictOf(api.items))

\* the value analyze_emotion returns ("none", "dict") or that it raises
analyze_emotion(api) ==
    IF api.kind \in {"transport", "status"} THEN Result("none", <<>>)
    ELSE IF api.kind = "badjson" THEN Result("none", <<>>)
    ELSE IF api.shape # "listlist" THEN Result("none", <<>>)
    ELSE IF RaisesKeyError(api.items) THEN Result("raise", <<>>)
    ELSE Result("dict", DictOf(api.items))

\* variant: the last key of maximal value
ArgMaxLast(d) ==
    LET i == CHOOSE i \in 1 .. Len(d) :
                /\ \A j \in 1 .. Len(d) : d[j].score <= d[i].score
                /\ \A j \in (i + 1) .. Len(d) : d[j].score < d[i].score
    IN d[i].label

\* max(emotion_data, key=emotion_data.get): the first key of maximal value
ArgMax(d) ==
    LET i == CHOOSE i \in 1 .. Len(d) :
                /\ \A j \in 1 .. Len(d) : d[j].score <= d[i].score
                /\ \A j \in 1 .. (i - 1) : d[j].score < d[i].score
    IN d[i].label

\* emotion_data[key]
DictGet(d, k) ==
    LET i == CHOOSE i \in 1 .. Len(d) : d[i].label = k IN d[i].score

\* a float: units is its value in fixed point, eps the sign of what its
\* decimal rendering adds to that (58.214999999999996 is 5821500 with -1)
Float(units, eps) == [units |-> units, eps |-> eps]

\* score * 100 in double precision, as repr renders it, for the scores of
\* the model: 0.07 * 100 is 7.000000000000001, 0.12345 * 100 is 12.345,
\* 0.58215 * 100 is 58.214999999999996, 0.92 * 100 is 92.0
FloatError(score) ==
    CASE score = 0 -> 0
      [] score = 7000 -> 1
      [] score = 12345 -> 0
      [] score = 58215 -> -1
      [] score = 92000 -> 0

\* emotion_data[primary_emotion] * 100
ToPercent(score) == Float(score * Percent, FloatError(score))

RECURSIVE Pow10(_)
Pow10(n) == IF n = 0 THEN 1 ELSE 10 * Pow10(n - 1)

\* one unit of the last digit a DECIMAL(5, 2) keeps: 0.01
DecimalStep == Unit \div Pow10(DecimalScale)
\* the value a DECIMAL(5, 2) column stores for the literal of float
\* v >= 0: rounded to two fractional digits, an exact half upwards
ToDecimal(v) ==
    LET half == DecimalStep \div 2
        up == ((v.units + half) \div DecimalStep) * DecimalStep
    IN IF (v.units + half) % DecimalStep = 0 /\ v.eps < 0
       THEN up - DecimalStep
       ELSE up

----------------------------------------------------------------------------
(* The table and the query of get_moods *)

Row(id, text, emotion, score, ts) ==
    [id |-> id, entry_text |-> text, primary_emotion |-> emotion,
     primary_score |-> score, timestamp |-> ts]

\* ORDER BY timestamp DESC says nothing of rows with equal timestamps: the
\* server may return them in any order.  tie is the order this execution
\* gives them: by id ascending (the scan order of the primary key, which a
\* stable sort keeps) or descending.  These are two of the orders the
\* server may give; no property below is established from the order of a
\* listing.
Before(e, f, tie) ==
    \/ e.timestamp > f.timestamp
    \/ /\ e.timestamp = f.timestamp
       /\ IF tie = "asc" THEN e.id < f.id ELSE e.id > f.id

RECURSIVE OrderBy(_, _)
OrderBy(rows, tie) ==
    IF rows = {} THEN <<>>
    ELSE LET e == CHOOSE e \in rows :
                     \A f \in rows \ {e} : Before(e, f, tie)
         IN <<e>> \o OrderBy(rows \ {e}, tie)

\* LIMIT n
Take(s, n) == SubSeq(s, 1, IF Len(s) < n THEN Len(s) ELSE n)

\* SELECT ... FROM journal_entries ORDER BY timestamp DESC LIMIT 30
SelectRecent(rows, tie) == Take(OrderBy(rows, tie), Limit)

Digit(d) == <<"0", "1", "2", "3", "4", "5", "6", "7", "8", "9">>[d + 1]

\* datetime.isoformat() of second t of the model's first minute
isoformat(t) ==
    "2025-01-01T00:00:" \o Digit((t \div 10) % 10) \o Digit(t % 10)

\* for entry in entries: entry['timestamp'] = entry['timestamp'].isoformat()
FormatRows(rows) ==
    [i \in 1 .. Len(rows) |->
        [rows[i] EXCEPT !.timestamp = isoformat(rows[i].timestamp)]]

----------------------------------------------------------------------------
(* State of a request *)

NoReq ==
    [op |-> "none", data |-> "none", entry_text |-> None, api |-> NoApi,
     emotion_data |-> <<>>, primary_emotion |-> "",
     primary_score |-> Float(0, 0), rowid |-> 0, rows |-> <<>>]

\* jsonify(...), status: the fields the two routes put in a body
Response(status, error, message, emotion, score, rows) ==
    [status |-> status, error |-> error, message |-> message,
     emotion |-> emotion, score |-> score, entries |-> rows]
NoResp == Response(0, "", "", "", Float(0, 0), <<>>)
ErrorResponse(status, error) ==
    Response(status, error, "", "", Float(0, 0), <<>>)
\* what Flask answers when the handler raises: no body of the application
Unhandled == ErrorResponse(500, "Internal Server Error")

\* classifier calls, get_db_connection calls, connections obtained, INSERT
\* statements sent, conn.commit() calls that returned
NoCalls == [classify |-> 0, connect |-> 0, opened |-> 0, insert |-> 0,
            commit |-> 0]

Init ==
    /\ setupPc = "connect1"
    /\ dbExists = FALSE
    /\ tableExists = FALSE
    /\ clock = 0
    /\ entries = {}
    /\ nextId = 1
    /\ insertLog = <<>>
    /\ txn = [r \in Reqs |-> {}]
    /\ connOpen = [o \in Owners |-> 0]
    /\ pc = [r \in Reqs |-> "idle"]
    /\ req = [r \in Reqs |-> NoReq]
    /\ resp = [r \in Reqs |-> NoResp]
    /\ calls = [r \in Reqs |-> NoCalls]

----------------------------------------------------------------------------
(* Connections *)

\* conn = get_db_connection(...): one more open connection of o when
\* mysql.connector.connect succeeds, None when it raises
get_db_connection(o, ok) ==
    connOpen' = [connOpen EXCEPT ![o] = IF ok THEN @ + 1 ELSE @]

\* variant: no finally block
FinallyNoClose(n, is_connected) == n

\* finally: if conn and conn.is_connected(): conn.close()
\* n open connections of the owner before, the number after
Finally(n, is_connected) == IF is_connected THEN n - 1 ELSE n

\* leaving a try block whose statement ended as outcome says: a lost
\* connection is no longer open and is_connected() is false
Release(o, outcome) ==
    connOpen' = [connOpen EXCEPT ![o] =
                    IF outcome = "lost" THEN Finally(@ - 1, FALSE)
                    ELSE Finally(@, TRUE)]

----------------------------------------------------------------------------
(* setup_database, run by the main block before app.run *)

\* conn = get_db_connection(); if conn is None: return False
SetupConnect(ok) ==
    /\ setupPc = "connect1"
    /\ get_db_connection(Main, ok)
    /\ setupPc' = IF ok THEN "createdb" ELSE "failed"
    /\ UNCHANGED <<dbExists, tableExists, clock, entries, nextId, insertLog,
                   txn, pc, req, resp, calls>>

\* CREATE DATABASE IF NOT EXISTS; cursor.close(); conn.close()
SetupCreateDatabase(outcome) ==
    /\ setupPc = "createdb"
    /\ dbExists' = (dbExists \/ outcome = "ok")
    /\ Release(Main, outcome)
    /\ setupPc' = IF outcome = "ok" THEN "connect2" ELSE "failed"
    /\ UNCHANGED <<tableExists, clock, entries, nextId, insertLog,
                   txn, pc, req, resp, calls>>

\* conn = get_db_connection(database=DB_NAME); if conn is None: return False
SetupConnect2(ok) ==
    /\ setupPc = "connect2"
    /\ get_db_connection(Main, ok)
    /\ setupPc' = IF ok THEN "createtable" ELSE "failed"
    /\ UNCHANGED <<dbExists, tableExists, clock, entries, nextId, insertLog,
                   txn, pc, req, resp, calls>>

\* cursor.execute(CREATE TABLE IF NOT EXISTS journal_entries); conn.commit();
\* return True (the app then serves requests), or the except and finally
\* blocks.  created says whether the statement has run on the server: the
\* server commits it implicitly, so the table stays when conn.commit() then
\* fails.
SetupCreateTable(outcome, created) ==
    /\ setupPc = "createtable"
    /\ outcome = "ok" => created
    /\ tableExists' = (tableExists \/ created)
    /\ Release(Main, outcome)
    /\ setupPc' = IF outcome = "ok" THEN "serving" ELSE "failed"
    /\ UNCHANGED <<dbExists, clock, entries, nextId, insertLog,
                   txn, pc, req, resp, calls>>

setup_database ==
    \/ \E ok \in BOOLEAN : SetupConnect(ok)
    \/ \E outcome \in Outcomes : SetupCreateDatabase(outcome)
    \/ \E ok \in BOOLEAN : SetupConnect2(ok)
    \/ \E outcome \in Outcomes, created \in BOOLEAN :
          SetupCreateTable(outcome, created)

\* the database server's clock
Tick ==
    /\ clock' = clock + 1
    /\ UNCHANGED <<setupPc, dbExists, tableExists, entries, nextId, insertLog,
                   txn, connOpen, pc, req, resp, calls>>

----------------------------------------------------------------------------
(* POST /add_entry *)

Done(r, response) ==
    /\ pc' = [pc EXCEPT ![r] = "done"]
    /\ resp' = [resp EXCEPT ![r] = response]

Goto(r, label) ==
    /\ pc' = [pc EXCEPT ![r] = label]
    /\ UNCHANGED resp

Count(r, what) == calls' = [calls EXCEPT ![r][what] = @ + 1]

\* not entry_text: the text is absent or empty
Falsy(text) == text \in {None, ""}

\* data = request.json; entry_text = data.get('text') (AttributeError when
\* data is no object); if not entry_text: return 400; otherwise
\* analyze_emotion posts the text to the classifier
AddEntryReceive(r, body) ==
    /\ setupPc = "serving"
    /\ pc[r] = "idle"
    /\ req' = [req EXCEPT ![r] =
                  [NoReq EXCEPT !.op = "add_entry", !.data = body.kind,
                                !.entry_text = body.text]]
    /\ IF body.kind # "object"
       THEN /\ Done(r, Unhandled)
            /\ UNCHANGED calls
       ELSE IF Falsy(body.text)
       THEN /\ Done(r, ErrorResponse(400, "No text provided"))
            /\ UNCHANGED calls
       ELSE /\ Goto(r, "classify")
            /\ Count(r, "classify")
    /\ UNCHANGED <<setupPc, dbExists, tableExists, clock, entries, nextId,
                   insertLog, txn, connOpen>>

\* the classifier's answer to requests.post arrives
ClassifierRespond(r, api) ==
    /\ pc[r] = "classify"
    /\ req' = [req EXCEPT ![r].api = api]
    /\ Goto(r, "analyze")
    /\ UNCHANGED <<setupPc, dbExists, tableExists, clock, entries, nextId,
                   insertLog, txn, connOpen, calls>>

\* the rest of analyze_emotion, "if not emotion_data", and the primary
\* emotion and score
AddEntryAnalyze(r) ==
    /\ pc[r] = "analyze"
    /\ LET emotion_data == analyze_emotion(req[r].api)
           primary_emotion == ArgMax(emotion_data.data)
           primary_score == ToPercent(DictGet(emotion_data.data, primary_emotion))
       IN IF emotion_data.kind = "raise"
          THEN /\ Done(r, Unhandled)
               /\ req' = [req EXCEPT ![r].api = NoApi]
          ELSE IF emotion_data.kind = "none" \/ emotion_data.data = <<>>
          THEN /\ Done(r, ErrorResponse(500, "Failed to analyze emotion"))
               /\ req' = [req EXCEPT ![r].api = NoApi]
          ELSE /\ Goto(r, "connect")
               /\ req' = [req EXCEPT ![r].api = NoApi,
                                     ![r].emotion_data = emotion_data.data,
                                     ![r].primary_emotion = primary_emotion,
                                     ![r].primary_score = primary_score]
    /\ UNCHANGED <<setupPc, dbExists, tableExists, clock, entries, nextId,
                   insertLog, txn, connOpen, calls>>

\* conn = get_db_connection(database=DB_NAME); if conn is None: return 500
AddEntryConnect(r, ok) ==
    /\ pc[r] = "connect"
    /\ calls' = [calls EXCEPT ![r].connect = @ + 1,
                              ![r].opened = IF ok THEN @ + 1 ELSE @]
    /\ get_db_connection(r, ok)
    /\ IF ok THEN Goto(r, "execute")
       ELSE Done(r, ErrorResponse(500, "Database connection failed"))
    /\ UNCHANGED <<setupPc, dbExists, tableExists, clock, entries, nextId,
                   insertLog, txn, req>>

\* variant: the id is computed from the committed rows
NextRowIdFromCommitted(counter, committed) == Cardinality(committed) + 1

\* the id AUTO_INCREMENT gives the next row
NextRowId(counter, committed) == counter

\* the row INSERT INTO journal_entries (entry_text, primary_emotion,
\* primary_score) VALUES (%s, %s, %s) makes: id from AUTO_INCREMENT, the
\* score as DECIMAL(5, 2), timestamp DEFAULT CURRENT_TIMESTAMP
InsertedRow(id, text, emotion, score, now) ==
    Row(id, text, emotion, ToDecimal(score), now)

\* mysql.connector.connect(**config) leaves autocommit off: an INSERT is
\* visible to other connections only once conn.commit() has run
Autocommit == FALSE

\* cursor = conn.cursor(); cursor.execute(query, (entry_text,
\* primary_emotion, primary_score)), or the except and finally blocks.
\* cursor says whether conn.cursor() succeeds, outcome how the step ends:
\* without a cursor no INSERT is sent and the step fails.
AddEntryExecute(r, cursor, outcome) ==
    /\ pc[r] = "execute"
    /\ ~cursor => outcome # "ok"
    /\ IF cursor THEN Count(r, "insert") ELSE UNCHANGED calls
    /\ IF outcome = "ok"
       THEN LET id == NextRowId(nextId, entries)
                row == InsertedRow(id, req[r].entry_text,
                                   req[r].primary_emotion,
                                   req[r].primary_score, clock)
            IN /\ txn' = [txn EXCEPT ![r] = IF Autocommit THEN {} ELSE {row}]
               /\ entries' = IF Autocommit THEN entries \cup {row} ELSE entries
               /\ nextId' = nextId + 1
               /\ insertLog' = Append(insertLog, id)
               /\ req' = [req EXCEPT ![r].rowid = id]
               /\ Goto(r, "commit")
               /\ UNCHANGED connOpen
       ELSE /\ Done(r, ErrorResponse(500, "Failed to save entry to database"))
            /\ Release(r, outcome)
            /\ UNCHANGED <<txn, entries, nextId, insertLog, req>>
    /\ UNCHANGED <<setupPc, dbExists, tableExists, clock>>

\* conn.commit(): the rows of the transaction join the table
Commit(committed, pending) == committed \cup pending

\* conn.commit(), or the except and finally blocks.  outcome is what the
\* client sees, applied whether the server has committed: it has when the
\* call returns, it has not when the server answers with an error, and when
\* the connection breaks during the call it may have committed before the
\* reply was read.  Closing the connection rolls back what is not committed.
AddEntryCommit(r, outcome, applied) ==
    /\ pc[r] = "commit"
    /\ outcome = "ok" => applied
    /\ outcome = "error" => ~applied
    /\ txn' = [txn EXCEPT ![r] = {}]
    /\ entries' = IF applied THEN Commit(entries, txn[r]) ELSE entries
    /\ IF outcome = "ok"
       THEN /\ Count(r, "commit")
            /\ Goto(r, "return")
            /\ UNCHANGED connOpen
       ELSE /\ Done(r, ErrorResponse(500, "Failed to save entry to database"))
            /\ Release(r, outcome)
            /\ UNCHANGED calls
    /\ UNCHANGED <<setupPc, dbExists, tableExists, clock, nextId, insertLog, req>>

\* cursor.close(); the finally block; return jsonify({...}) with status 200
AddEntryReturn(r) ==
    /\ pc[r] = "return"
    /\ Release(r, "ok")
    /\ Done(r, Response(200, "", "Entry saved successfully",
                        req[r].primary_emotion, req[r].primary_score, <<>>))
    /\ UNCHANGED <<setupPc, dbExists, tableExists, clock, entries, nextId,
                   insertLog, txn, req, calls>>

----------------------------------------------------------------------------
(* GET /moods *)

\* conn = get_db_connection(database=DB_NAME); if conn is None: return 500
MoodsConnect(r, ok) ==
    /\ setupPc = "serving"
    /\ pc[r] = "idle"
    /\ req' = [req EXCEPT ![r] = [NoReq EXCEPT !.op = "get_moods"]]
    /\ calls' = [calls EXCEPT ![r].connect = @ + 1,
                              ![r].opened = IF ok THEN @ + 1 ELSE @]
    /\ get_db_connection(r, ok)
    /\ IF ok THEN Goto(r, "query")
       ELSE Done(r, ErrorResponse(500, "Database connection failed"))
    /\ UNCHANGED <<setupPc, dbExists, tableExists, clock, entries, nextId,
                   insertLog, txn>>

\* cursor.execute(query); entries = cursor.fetchall(); the isoformat loop;
\* or the except and finally blocks
MoodsQuery(r, outcome, tie) ==
    /\ pc[r] = "query"
    /\ IF outcome = "ok"
       THEN /\ req' = [req EXCEPT ![r].rows =
                          FormatRows(SelectRecent(entries, tie))]
            /\ Goto(r, "listed")
            /\ UNCHANGED connOpen
       ELSE /\ Done(r, ErrorResponse(500, "Failed to retrieve moods"))
            /\ Release(r, outcome)
            /\ UNCHANGED req
    /\ UNCHANGED <<setupPc, dbExists, tableExists, clock, entries, nextId,
                   insertLog, txn, calls>>

\* the finally block; return jsonify(entries)
MoodsReturn(r) ==
    /\ pc[r] = "listed"
    /\ Release(r, "ok")
    /\ Done(r, Response(200, "", "", "", Float(0, 0), req[r].rows))
    /\ UNCHANGED <<setupPc, dbExists, tableExists, clock, entries, nextId,
                   insertLog, txn, req, calls>>

\* the response is sent and the worker takes the next request
Finish(r) ==
    /\ pc[r] = "done"
    /\ pc' = [pc EXCEPT ![r] = "idle"]
    /\ req' = [req EXCEPT ![r] = NoReq]
    /\ resp' = [resp EXCEPT ![r] = NoResp]
    /\ calls' = [calls EXCEPT ![r] = NoCalls]
    /\ UNCHANGED <<setupPc, dbExists, tableExists, clock, entries, nextId,
                   insertLog, txn, connOpen>>

add_entry(r) ==
    \/ \E body \in Bodies : AddEntryReceive(r, body)
    \/ \E api \in ApiResponses : ClassifierRespond(r, api)
    \/ AddEntryAnalyze(r)
    \/ \E ok \in BOOLEAN : AddEntryConnect(r, ok)
    \/ \E cursor \in BOOLEAN, outcome \in Outcomes :
          nextId <= MaxId /\ AddEntryExecute(r, cursor, outcome)
    \/ \E outcome \in Outcomes, applied \in BOOLEAN :
          AddEntryCommit(r, outcome, applied)
    \/ AddEntryReturn(r)

get_moods(r) ==
    \/ \E ok \in BOOLEAN : MoodsConnect(r, ok)
    \/ \E outcome \in Outcomes, tie \in TieOrders : MoodsQuery(r, outcome, tie)
    \/ MoodsReturn(r)

(* One worker serves one request at a time, any inputs *)
Next ==
    \/ setup_database
    \/ clock < MaxClock /\ Tick
    \/ add_entry(1)
    \/ get_moods(1)
    \/ Finish(1)

Spec == Init /\ [][Next]_vars

(* NumReq workers serve POST /add_entry concurrently.  The classifier      *)
(* either fails or names joy; every database call may succeed or fail.     *)
ConcurrentApis ==
    {Api("transport", "none", <<>>),
     Api("json", "listlist", <<Item({"label", "score"}, "joy", 92000)>>)}

add_entry_concurrent(r) ==
    \/ AddEntryReceive(r, Body("object", "t1"))
    \/ \E api \in ConcurrentApis : ClassifierRespond(r, api)
    \/ AddEntryAnalyze(r)
    \/ \E ok \in BOOLEAN : AddEntryConnect(r, ok)
    \/ \E cursor \in BOOLEAN, outcome \in Outcomes :
          nextId <= MaxId /\ AddEntryExecute(r, cursor, outcome)
    \/ \E outcome \in Outcomes, applied \in BOOLEAN :
          AddEntryCommit(r, outcome, applied)
    \/ AddEntryReturn(r)

NextConcurrent ==
    \/ setup_database
    \/ clock < MaxClock /\ Tick
    \/ \E r \in Reqs : add_entry_concurrent(r)
    \/ \E r \in Reqs : Finish(r)

SpecConcurrent == Init /\ [][NextConcurrent]_vars

(* One worker fills a provisioned table past LIMIT and lists it; every     *)
(* call succeeds.                                                          *)
InitBulk ==
    /\ setupPc = "serving"
    /\ dbExists = TRUE
    /\ tableExists = TRUE
    /\ clock = 0
    /\ entries = {}
    /\ nextId = 1
    /\ insertLog = <<>>
    /\ txn = [r \in Reqs |-> {}]
    /\ connOpen = [o \in Owners |-> 0]
    /\ pc = [r \in Reqs |-> "idle"]
    /\ req = [r \in Reqs |-> NoReq]
    /\ resp = [r \in Reqs |-> NoResp]
    /\ calls = [r \in Reqs |-> NoCalls]

BulkApi == Api("json", "listlist", <<Item({"label", "score"}, "joy", 92000)>>)

NextBulk ==
    \/ clock < MaxClock /\ Tick
    \/ AddEntryReceive(1, Body("object", "t1"))
    \/ ClassifierRespond(1, BulkApi)
    \/ AddEntryAnalyze(1)
    \/ AddEntryConnect(1, TRUE)
    \/ nextId <= BulkIds /\ AddEntryExecute(1, TRUE, "ok")
    \/ AddEntryCommit(1, "ok", TRUE)
    \/ AddEntryReturn(1)
    \/ MoodsConnect(1, TRUE)
    \/ \E tie \in TieOrders : MoodsQuery(1, "ok", tie)
    \/ MoodsReturn(1)
    \/ Finish(1)

SpecBulk == InitBulk /\ [][NextBulk]_vars

----------------------------------------------------------------------------
(* Vocabulary of the properties *)

\* request r has returned from add_entry / get_moods with this status
Returned(r, op, status) ==
    pc[r] = "done" /\ req[r].op = op /\ resp[r].status = status

\* l is the label of maximal score in mapping d, the first such label in
\* d's iteration order
IsPrimary(d, l) ==
    \E i \in 1 .. Len(d) :
        /\ d[i].label = l
        /\ \A j \in 1 .. Len(d) : d[j].score <= d[i].score
        /\ \A j \in 1 .. Len(d) : j < i => d[j].score < d[i].score

ScoreOf(d, l) == CHOOSE s \in {d[i].score : i \in 1 .. Len(d)} :
                    \E i \in 1 .. Len(d) : d[i].label = l /\ d[i].score = s

\* m is the multiple of 0.01 nearest to float v, an exact half upwards
IsRounded(v, m) ==
    /\ m % (Unit \div 100) = 0
    /\ \/ 2 * (m - v.units) < Unit \div 100
       \/ 2 * (m - v.units) = Unit \div 100 /\ v.eps >= 0
    /\ \/ 2 * (v.units - m) < Unit \div 100
       \/ 2 * (v.units - m) = Unit \div 100 /\ v.eps < 0

\* the committed rows request r inserted
RowsOf(r) == {e \in entries : e.id = req[r].rowid}

\* the classifier's answer is a failure or has not the expected shape
ClassifierFailed(api) ==
    \/ api.kind \in {"transport", "status", "badjson"}
    \/ api.shape # "listlist"
    \/ \E i \in 1 .. Len(api.items) :
          ~ ({"label", "score"} \subseteq api.items[i].keys)

\* the answer is JSON of another shape than a list of a list of
\* {label, score} objects
Deviates(api) ==
    /\ api.kind = "json"
    /\ \/ api.shape # "listlist"
       \/ \E i \in 1 .. Len(api.items) :
             ~ ({"label", "score"} \subseteq api.items[i].keys)

AnalysisFailedBody == [status |-> 500, error |-> "Failed to analyze emotion",
                       message |-> "", emotion |-> "",
                       score |-> [units |-> 0, eps |-> 0], entries |-> <<>>]

\* f is newer than e in the order GET /moods is to list
Newer(f, e) ==
    \/ f.timestamp > e.timestamp
    \/ f.timestamp = e.timestamp /\ f.id > e.id

Min(a, b) == IF a < b THEN a ELSE b

\* the committed row a listed row shows
Stored(listed) == CHOOSE e \in entries : e.id = listed.id

----------------------------------------------------------------------------
(* C1: POST /add_entry *)

\* C1 as stated: when POST /add_entry has returned 200, the request has
\* committed exactly one record, whose primary_emotion is the label of
\* maximal score in the classifier's mapping (the first such label) and whose
\* primary_score is that label's score times 100; the body carries the same
\* emotion and score as the record.
C1_ScoreExact ==
    \A r \in Reqs : Returned(r, "add_entry", 200) =>
        /\ calls[r].commit = 1
        /\ Cardinality(RowsOf(r)) = 1
        /\ \A e \in RowsOf(r) :
              /\ IsPrimary(req[r].emotion_data, e.primary_emotion)
              /\ e.primary_score = ScoreOf(req[r].emotion_data, e.primary_emotion) * 100
              /\ resp[r].emotion = e.primary_emotion
              /\ resp[r].score = [units |-> e.primary_score, eps |-> 0]

\* C1 amended: as C1, but the body carries the emotion and the floating-point
\* product score times 100 (the decimal product up to the float's error), and
\* the record's primary_score is that product rounded to two decimals (the
\* DECIMAL(5, 2) column).
C1_ScoreRounded ==
    \A r \in Reqs : Returned(r, "add_entry", 200) =>
        /\ calls[r].commit = 1
        /\ Cardinality(RowsOf(r)) = 1
        /\ \A e \in RowsOf(r) :
              /\ IsPrimary(req[r].emotion_data, e.primary_emotion)
              /\ resp[r].emotion = e.primary_emotion
              /\ resp[r].score.units =
                    ScoreOf(req[r].emotion_data, e.primary_emotion) * 100
              /\ IsRounded(resp[r].score, e.primary_score)

\* a 200 for a mapping of two labels with equal scores, whose product is
\* just below a half of the third decimal: the record holds it rounded down
C1_Witness ==
    \E r \in Reqs :
        /\ Returned(r, "add_entry", 200)
        /\ Len(req[r].emotion_data) = 2
        /\ req[r].emotion_data[1].score = req[r].emotion_data[2].score
        /\ resp[r].emotion = req[r].emotion_data[1].label
        /\ resp[r].score.eps < 0
        /\ \E e \in RowsOf(r) :
              2 * (resp[r].score.units - e.primary_score) = Unit \div 100

----------------------------------------------------------------------------
(* C2: empty or absent text *)

\* request r is a POST /add_entry without a text: the body is no object,
\* or an object whose text is absent or empty
NoText(q) ==
    /\ q.op = "add_entry"
    /\ q.data # "object" \/ q.entry_text \in {None, ""}

C2_State ==
    \A r \in Reqs : NoText(req[r]) =>
        /\ pc[r] = "done"
        /\ resp[r].status = 400
        /\ resp[r].error = "No text provided"
        /\ calls[r].classify = 0
        /\ calls[r].connect = 0
        /\ calls[r].insert = 0
        /\ calls[r].commit = 0
        /\ connOpen[r] = 0
        /\ txn[r] = {}

C2_Step ==
    \A r \in Reqs :
        (NoText(req'[r]) /\ pc[r] = "idle" /\ pc'[r] # "idle") =>
            /\ entries' = entries
            /\ connOpen' = connOpen
            /\ txn' = txn

\* C2: a POST /add_entry whose text is empty or absent is answered 400
\* "No text provided" without a classifier call, a connection or a change of
\* the persisted records.
C2_NoText == []C2_State /\ [][C2_Step]_vars

----------------------------------------------------------------------------
(* C3: a failed classification never reaches the store *)

C3_State ==
    \A r \in Reqs : req[r].op = "add_entry" =>
        /\ (calls[r].connect > 0 \/ calls[r].insert > 0 \/ calls[r].commit > 0
              \/ connOpen[r] > 0 \/ txn[r] # {})
           => (req[r].emotion_data # <<>> /\ pc[r] \notin {"classify", "analyze"})
        /\ (pc[r] = "done" /\ resp[r].error = "Failed to analyze emotion")
           => (calls[r].connect = 0 /\ RowsOf(r) = {})

C3_Step ==
    \A r \in Reqs :
        (pc[r] = "analyze" /\ pc'[r] # "analyze" /\ ClassifierFailed(req[r].api)) =>
            /\ pc'[r] = "done"
            /\ calls'[r].connect = 0
            /\ connOpen' = connOpen
            /\ txn' = txn
            /\ entries' = entries
            /\ req[r].api.kind = "transport" => resp'[r] = AnalysisFailedBody

\* C3: when the classifier call fails or its answer is malformed, the
\* request ends without a connection and without a record, a transport
\* failure is answered 500 "Failed to analyze emotion", and a request touches
\* the store only after a successful classification.
C3_NoStoreOnFailure == []C3_State /\ [][C3_Step]_vars

C3_Witness ==
    \E r \in Reqs :
        /\ Returned(r, "add_entry", 500)
        /\ resp[r].error = "Failed to analyze emotion"
        /\ calls[r].classify = 1
        /\ calls[r].connect = 0

----------------------------------------------------------------------------
(* C4: a malformed answer *)

\* C4: every answer of the classifier that deviates from the expected shape
\* makes analyze_emotion return None, so that add_entry answers 500
\* "Failed to analyze emotion".
C4_MalformedMapped ==
    [][\A r \in Reqs :
          (pc[r] = "analyze" /\ pc'[r] # "analyze" /\ Deviates(req[r].api)) =>
              resp'[r] = AnalysisFailedBody]_vars

----------------------------------------------------------------------------
(* C5: a failed write *)

\* C5: when, after a successful classification, add_entry has answered 500,
\* the error is "Database connection failed" if no connection was obtained
\* and "Failed to save entry to database" if the cursor, the insert or the
\* commit failed; no record of the request is in the table, nothing of it is
\* pending, and it has connected once and inserted at most once.
C5_NoPartialWrite ==
    \A r \in Reqs :
        (Returned(r, "add_entry", 500) /\ req[r].emotion_data # <<>>) =>
            /\ calls[r].connect = 1
            /\ calls[r].insert <= 1
            /\ calls[r].commit = 0
            /\ RowsOf(r) = {}
            /\ txn[r] = {}
            /\ resp[r].error =
                  IF calls[r].opened = 0 THEN "Database connection failed"
                  ELSE "Failed to save entry to database"

----------------------------------------------------------------------------
(* C6: GET /moods *)

\* C6: a successful GET /moods returns min(30, number of records) records,
\* by timestamp descending, records of equal timestamp by insertion order
\* descending.
C6_ListingOrder ==
    Returned(1, "get_moods", 200) =>
        LET rows == resp[1].entries
        IN /\ Len(rows) = Min(30, Cardinality(entries))
           /\ \A i, j \in 1 .. Len(rows) :
                 i < j => Newer(Stored(rows[i]), Stored(rows[j]))

----------------------------------------------------------------------------
(* C7: the store is append-only *)

C7_Step ==
    /\ entries \subseteq entries'
    /\ \A r \in Reqs :
          (pc'[r] # pc[r] /\ "get_moods" \in {req[r].op, req'[r].op}) =>
              entries' = entries
    /\ entries' # entries =>
          \E r \in Reqs :
              /\ req[r].op = "add_entry"
              /\ pc[r] = "commit"
              /\ pc'[r] = "return"
              /\ entries' \ entries = txn[r]

\* C7: every step keeps every committed record as it is; a step of GET
\* /moods leaves the records unchanged; records are added only by the
\* commit of a POST /add_entry that then succeeds.
C7_AppendOnly == [][C7_Step]_vars

----------------------------------------------------------------------------
(* C8: round trip *)

\* C8: a successful GET /moods returns every record that has fewer than 30
\* newer records, with its entry_text and primary_emotion, its primary_score
\* within 0.01 and an ISO 8601 timestamp.
C8_RoundTrip ==
    Returned(1, "get_moods", 200) =>
        \A e \in entries :
            Cardinality({f \in entries : Newer(f, e)}) < 30 =>
                \E i \in 1 .. Len(resp[1].entries) :
                    LET listed == resp[1].entries[i]
                    IN /\ listed.id = e.id
                       /\ listed.entry_text = e.entry_text
                       /\ listed.primary_emotion = e.primary_emotion
                       /\ listed.primary_score - e.primary_score <= Unit \div 100
                       /\ e.primary_score - listed.primary_score <= Unit \div 100
                       /\ \E t \in 0 .. 59 : listed.timestamp = isoformat(t)

----------------------------------------------------------------------------
(* C9: connections *)

\* C9: once setup_database, add_entry or get_moods has returned, none of
\* the connections it opened is open.
C9_NoLeak ==
    /\ setupPc \in {"serving", "failed"} => connOpen[Main] = 0
    /\ \A r \in Reqs : pc[r] \in {"idle", "done"} => connOpen[r] = 0
    /\ \A o \in Owners : connOpen[o] \in {0, 1}

\* a request that failed after it had connected
C9_Witness ==
    \E r \in Reqs :
        /\ pc[r] = "done"
        /\ calls[r].opened = 1
        /\ resp[r].error \in {"Failed to save entry to database",
                              "Failed to retrieve moods"}
        /\ connOpen[r] = 0

----------------------------------------------------------------------------
(* C10: concurrent inserts *)

StrictlyIncreasing(s) == \A i, j \in 1 .. Len(s) : i < j => s[i] < s[j]

C10_State ==
    /\ \A r \in Reqs : Returned(r, "add_entry", 200) =>
          calls[r].commit = 1 /\ Cardinality(RowsOf(r)) = 1
    /\ \A e, f \in entries : e.id = f.id => e = f
    /\ \A r, q \in Reqs :
          (r # q /\ req[r].rowid # 0) => req[r].rowid # req[q].rowid
    /\ StrictlyIncreasing(insertLog)

C10_Step ==
    \A r \in Reqs :
        (pc[r] = "commit" /\ pc'[r] = "return") =>
            /\ Cardinality(entries') = Cardinality(entries) + 1
            /\ entries \subseteq entries'

\* C10: under every interleaving of POST /add_entry requests, a request
\* that returns 200 has committed exactly one record, a commit adds exactly
\* one record and loses none, committed records have distinct ids, and
\* INSERT statements receive increasing ids in the order they execute.
C10_AtomicInserts == []C10_State /\ [][C10_Step]_vars

\* the request that inserted later has returned 200 while the one that
\* inserted first has not committed yet
C10_Witness ==
    \E r, q \in Reqs :
        /\ Returned(r, "add_entry", 200)
        /\ pc[q] = "commit"
        /\ req[q].rowid # 0
        /\ req[q].rowid < req[r].rowid

====
